---- MODULE Spec2Model ----
(***************************************************************************)
(* A model of ojjson's OjjsonGenerator (src/mod.ts): the generate/repair   *)
(* engine, the JSON extractor, the correction-message builder and the      *)
(* bounded message history.                                                *)
(*                                                                         *)
(* Text is modelled as a sequence of chunks (strings) whose concatenation  *)
(* is the text.  Backend replies and serialized JSON are sequences of      *)
(* single characters, so that indexOf/lastIndexOf/substring and JSON.parse *)
(* are computed character by character.                                    *)
(***************************************************************************)
EXTENDS Integers, Sequences, FiniteSets, TLC

VARIABLES
  previousMessages,  \* OjjsonGenerator.previousMessages: Message[][]
  options,           \* OjjsonGenerator.options: [maxMessages, conversionHelp, examples]
                     \* (an omitted option is the empty tuple, a given one <<value>>)
  fr,                \* per generate call in flight: its local variables and position
  expected,          \* the entries of the last successful calls, newest last,
                     \* as many as maxMessages allows (kept for the properties)
  completed,         \* the number of successful calls, counted up to MaxCounted
  exStr,             \* extractor harness: the string handed to #extractJson
  exOut,             \* extractor harness: what #extractJson returned
  zErr,              \* message harness: the ZodError handed to #getErrorMessage
  zOut               \* message harness: what #getErrorMessage returned

vars == <<previousMessages, options, fr, expected, completed, exStr, exOut, zErr, zOut>>

(***************************************************************************)
(* Strings: String.prototype.indexOf / lastIndexOf / substring             *)
(***************************************************************************)

\* 0-based index of the first occurrence of ch in str, -1 when absent
RECURSIVE IndexFrom(_, _, _)
IndexFrom(str, ch, i) ==
  IF i > Len(str) THEN -1
  ELSE IF str[i] = ch THEN i - 1
  ELSE IndexFrom(str, ch, i + 1)

indexOf(str, ch) == IndexFrom(str, ch, 1)

\* 0-based index of the last occurrence of ch in str, -1 when absent
RECURSIVE LastIndexFrom(_, _, _)
LastIndexFrom(str, ch, i) ==
  IF i < 1 THEN -1
  ELSE IF str[i] = ch THEN i - 1
  ELSE LastIndexFrom(str, ch, i - 1)

lastIndexOf(str, ch) == LastIndexFrom(str, ch, Len(str))

Clamp(n, len) == IF n < 0 THEN 0 ELSE IF n > len THEN len ELSE n

\* str.substring(a, b): both ends clamped to [0, length], swapped when a > b
substring(str, a, b) ==
  LET ca == Clamp(a, Len(str))
      cb == Clamp(b, Len(str))
      lo == IF ca <= cb THEN ca ELSE cb
      hi == IF ca <= cb THEN cb ELSE ca
  IN  SubSeq(str, lo + 1, hi)

\* #extractJson with the end index used as written (no + 1)
extractJsonExclusiveEnd(str) ==
  substring(str, indexOf(str, "{"), lastIndexOf(str, "}"))

\* #extractJson
extractJson(str) ==
  LET start == indexOf(str, "{")
      end   == lastIndexOf(str, "}")
  IN  substring(str, start, end + 1)

(***************************************************************************)
(* JSON values.  Every value is a record [k, s, m]: k is the kind (zod's   *)
(* parsed-type name), s the characters of a string or the digits of a      *)
(* number, m the members of an object in insertion order (<<key, value>>). *)
(* The subset modelled: objects, strings without escapes, non-negative     *)
(* integers, true, false, null.                                            *)
(***************************************************************************)

JStr(chars)  == [k |-> "string", s |-> chars, m |-> <<>>]
JNum(digits) == [k |-> "number", s |-> digits, m |-> <<>>]
JBool(word)  == [k |-> "boolean", s |-> word, m |-> <<>>]
JNull        == [k |-> "null", s |-> <<>>, m |-> <<>>]
JUndefined   == [k |-> "undefined", s |-> <<>>, m |-> <<>>]
JObj(members) == [k |-> "object", s |-> <<>>, m |-> members]

Digits == {"0", "1", "2", "3", "4", "5", "6", "7", "8", "9"}
Whitespace == {" ", "\n", "\t"}

\* the character at 1-based position i, "" past the end
At(str, i) == IF i >= 1 /\ i <= Len(str) THEN str[i] ELSE ""

RECURSIVE SkipWs(_, _)
SkipWs(str, i) == IF At(str, i) \in Whitespace THEN SkipWs(str, i + 1) ELSE i

\* the position of the next double quote at or after i, 0 when there is none
RECURSIVE QuoteFrom(_, _)
QuoteFrom(str, i) ==
  IF i > Len(str) THEN 0
  ELSE IF str[i] = "\"" THEN i
  ELSE IF str[i] = "\\" THEN 0
  ELSE QuoteFrom(str, i + 1)

\* the position after the run of digits starting at i
RECURSIVE DigitsEnd(_, _)
DigitsEnd(str, i) == IF At(str, i) \in Digits THEN DigitsEnd(str, i + 1) ELSE i

ParseFail == [ok |-> FALSE, v |-> JUndefined, next |-> 0]
ParseOk(v, next) == [ok |-> TRUE, v |-> v, next |-> next]

\* a string literal whose opening quote is at i
ParseString(str, i) ==
  LET q == QuoteFrom(str, i + 1)
  IN  IF q = 0 THEN ParseFail ELSE ParseOk(JStr(SubSeq(str, i + 1, q - 1)), q + 1)

ParseNumber(str, i) ==
  LET e == DigitsEnd(str, i)
  IN  IF str[i] = "0" /\ e > i + 1 THEN ParseFail
      ELSE ParseOk(JNum(SubSeq(str, i, e - 1)), e)

ParseWord(str, i, word, v) ==
  IF SubSeq(str, i, i + Len(word) - 1) = word THEN ParseOk(v, i + Len(word))
  ELSE ParseFail

\* obj[key] = v on an object's members: a repeated key keeps its place
RECURSIVE SetMember(_, _, _)
SetMember(members, key, v) ==
  IF members = <<>> THEN << <<key, v>> >>
  ELSE IF Head(members)[1] = key THEN << <<key, v>> >> \o Tail(members)
  ELSE <<Head(members)>> \o SetMember(Tail(members), key, v)

RECURSIVE ParseValue(_, _)
RECURSIVE ParseMembers(_, _, _)

\* the members of an object from the key at i on, up to the closing brace
ParseMembers(str, i, acc) ==
  IF At(str, i) # "\"" THEN ParseFail
  ELSE
    LET key == ParseString(str, i)
    IN  IF ~key.ok THEN ParseFail
        ELSE
          LET c == SkipWs(str, key.next)
          IN  IF At(str, c) # ":" THEN ParseFail
              ELSE
                LET val == ParseValue(str, SkipWs(str, c + 1))
                IN  IF ~val.ok THEN ParseFail
                    ELSE
                      LET n    == SkipWs(str, val.next)
                          acc2 == SetMember(acc, key.v.s, val.v)
                      IN  IF At(str, n) = "," THEN ParseMembers(str, SkipWs(str, n + 1), acc2)
                          ELSE IF At(str, n) = "}" THEN ParseOk(JObj(acc2), n + 1)
                          ELSE ParseFail

ParseValue(str, i) ==
  LET c == At(str, i)
  IN  IF c = "{" THEN
        LET j == SkipWs(str, i + 1)
        IN  IF At(str, j) = "}" THEN ParseOk(JObj(<<>>), j + 1)
            ELSE ParseMembers(str, j, <<>>)
      ELSE IF c = "\"" THEN ParseString(str, i)
      ELSE IF c \in Digits THEN ParseNumber(str, i)
      ELSE IF c = "t" THEN ParseWord(str, i, <<"t", "r", "u", "e">>, JBool(<<"t", "r", "u", "e">>))
      ELSE IF c = "f" THEN ParseWord(str, i, <<"f", "a", "l", "s", "e">>, JBool(<<"f", "a", "l", "s", "e">>))
      ELSE IF c = "n" THEN ParseWord(str, i, <<"n", "u", "l", "l">>, JNull)
      ELSE ParseFail

\* JSON.parse(str): [ok |-> FALSE] stands for the SyntaxError it throws
JSONparse(str) ==
  LET r == ParseValue(str, SkipWs(str, 1))
  IN  IF r.ok /\ SkipWs(str, r.next) = Len(str) + 1 THEN [ok |-> TRUE, v |-> r.v]
      ELSE [ok |-> FALSE, v |-> JUndefined]

RECURSIVE JSONstringify(_)
RECURSIVE StringifyMembers(_)

StringifyMembers(members) ==
  IF members = <<>> THEN <<>>
  ELSE <<"\"">> \o Head(members)[1] \o <<"\"", ":">> \o JSONstringify(Head(members)[2])
       \o (IF Len(members) > 1 THEN <<",">> ELSE <<>>)
       \o StringifyMembers(Tail(members))

\* JSON.stringify(v), for values whose strings need no escaping
JSONstringify(v) ==
  IF v.k = "object" THEN <<"{">> \o StringifyMembers(v.m) \o <<"}">>
  ELSE IF v.k = "string" THEN <<"\"">> \o v.s \o <<"\"">>
  ELSE IF v.k = "null" THEN <<"n", "u", "l", "l">>
  ELSE v.s

(***************************************************************************)
(* The Output schema and its validation (zod's ZodType.parse as generate   *)
(* calls it).  A schema is a record [t, shape, options]; an issue is a     *)
(* record [code, path, message, expected, received, unionErrors], where    *)
(* unionErrors holds one issue list per option of the union.               *)
(***************************************************************************)

ZString == [t |-> "string", shape |-> <<>>, options |-> <<>>]
ZNumber == [t |-> "number", shape |-> <<>>, options |-> <<>>]
ZObject(shape) == [t |-> "object", shape |-> shape, options |-> <<>>]
ZUnion(alts) == [t |-> "union", shape |-> <<>>, options |-> alts]

K_name == <<"n", "a", "m", "e">>
K_age  == <<"a", "g", "e">>

\* a shape entry is <<key as characters, key as a path element, schema>>
\* the Output schema of the generator: zod.object({ name: string, age: number })
Output == ZObject(<< <<K_name, "name", ZString>>, <<K_age, "age", ZNumber>> >>)

InvalidType(exp, rec, path) ==
  [code |-> "invalid_type", path |-> path,
   message |-> IF rec = "undefined" THEN "Required"
               ELSE "Expected " \o exp \o ", received " \o rec,
   expected |-> exp, received |-> rec, unionErrors |-> <<>>]

InvalidUnion(path, errs) ==
  [code |-> "invalid_union", path |-> path, message |-> "Invalid input",
   expected |-> "", received |-> "", unionErrors |-> errs]

\* value[key] of an object's members, undefined when the key is absent
RECURSIVE Member(_, _)
Member(members, key) ==
  IF members = <<>> THEN JUndefined
  ELSE IF Head(members)[1] = key THEN Head(members)[2]
  ELSE Member(Tail(members), key)

RECURSIVE ZodIssues(_, _, _)
RECURSIVE ShapeIssues(_, _, _)
RECURSIVE OptionIssues(_, _, _)

\* the issues of every key of the shape, in the shape's order
ShapeIssues(shape, members, path) ==
  IF shape = <<>> THEN <<>>
  ELSE ZodIssues(Head(shape)[3], Member(members, Head(shape)[1]), path \o <<Head(shape)[2]>>)
       \o ShapeIssues(Tail(shape), members, path)

\* one issue list per option of a union
OptionIssues(alts, v, path) ==
  IF alts = <<>> THEN <<>>
  ELSE <<ZodIssues(Head(alts), v, path)>> \o OptionIssues(Tail(alts), v, path)

\* the issues schema.safeParse(v) reports, none when v conforms
ZodIssues(schema, v, path) ==
  IF schema.t = "object" THEN
    IF v.k # "object" THEN <<InvalidType("object", v.k, path)>>
    ELSE ShapeIssues(schema.shape, v.m, path)
  ELSE IF schema.t = "union" THEN
    LET errs == OptionIssues(schema.options, v, path)
    IN  IF \E i \in 1..Len(errs) : errs[i] = <<>> THEN <<>>
        ELSE <<InvalidUnion(path, errs)>>
  ELSE IF v.k # schema.t THEN <<InvalidType(schema.t, v.k, path)>>
  ELSE <<>>

\* the value schema.parse(v) returns for a conforming v: an object keeps
\* the keys of its shape only, in the shape's order
RECURSIVE ZodValue(_, _)
RECURSIVE ShapeValue(_, _)

ShapeValue(shape, members) ==
  IF shape = <<>> THEN <<>>
  ELSE << <<Head(shape)[1], ZodValue(Head(shape)[3], Member(members, Head(shape)[1]))>> >>
       \o ShapeValue(Tail(shape), members)

ZodValue(schema, v) ==
  IF schema.t = "object" THEN JObj(ShapeValue(schema.shape, v.m)) ELSE v

(***************************************************************************)
(* #getErrorMessage: one line per issue; the issues of every option of a   *)
(* union are listed, one level deep.                                       *)
(***************************************************************************)

\* path.join(".")
RECURSIVE Join(_)
Join(path) ==
  IF path = <<>> THEN ""
  ELSE IF Len(path) = 1 THEN path[1]
  ELSE path[1] \o "." \o Join(Tail(path))

ReceivedLine(err) ==
  "* " \o Join(err.path) \o ": Received " \o err.received \o " but expected "
       \o err.expected \o ", " \o err.message \o "\n"

MessageLine(err) == "* " \o Join(err.path) \o ": " \o err.message \o "\n"

\* the inner forEach of a union branch (lines 256-264)
RECURSIVE UnionErrorLines(_)
UnionErrorLines(errors) ==
  IF errors = <<>> THEN <<>>
  ELSE <<IF Head(errors).code = "invalid_type" THEN ReceivedLine(Head(errors))
         ELSE MessageLine(Head(errors))>>
       \o UnionErrorLines(Tail(errors))

RECURSIVE UnionLines(_)
UnionLines(unionErrors) ==
  IF unionErrors = <<>> THEN <<>>
  ELSE UnionErrorLines(Head(unionErrors)) \o UnionLines(Tail(unionErrors))

\* #getErrorMessage with every invalid_type issue rendered as a Received line
RECURSIVE getErrorMessageReceivedEverywhere(_)
getErrorMessageReceivedEverywhere(errors) ==
  IF errors = <<>> THEN <<>>
  ELSE (IF Head(errors).code = "invalid_union" THEN UnionLines(Head(errors).unionErrors)
        ELSE IF Head(errors).code = "invalid_type" THEN <<ReceivedLine(Head(errors))>>
        ELSE <<MessageLine(Head(errors))>>)
       \o getErrorMessageReceivedEverywhere(Tail(errors))

\* #getErrorMessage(exception), over exception.errors: the lines of the text
RECURSIVE getErrorMessage(_)
getErrorMessage(errors) ==
  IF errors = <<>> THEN <<>>
  ELSE (IF Head(errors).code = "invalid_union" THEN UnionLines(Head(errors).unionErrors)
        ELSE <<MessageLine(Head(errors))>>)
       \o getErrorMessage(Tail(errors))

(***************************************************************************)
(* Messages, errors and the result of parsing a reply                      *)
(***************************************************************************)

Message(role, content) == [role |-> role, content |-> content]
NoMessage == Message("", <<>>)

ZodError(issues) == [kind |-> "ZodError", issues |-> issues, id |-> ""]
SyntaxError      == [kind |-> "SyntaxError", issues |-> <<>>, id |-> ""]
AdapterError(id) == [kind |-> "AdapterError", issues |-> <<>>, id |-> id]
NoError          == [kind |-> "", issues |-> <<>>, id |-> ""]

\* this.output.parse(JSON.parse(this.#extractJson(content))) accepting whatever
\* JSON.parse returns, unvalidated
parseReplyUnvalidated(content) ==
  LET json == JSONparse(extractJson(content))
  IN  IF ~json.ok THEN [ok |-> FALSE, out |-> JUndefined, error |-> SyntaxError]
      ELSE [ok |-> TRUE, out |-> json.v, error |-> NoError]

\* this.output.parse(JSON.parse(this.#extractJson(content))): the value it
\* returns, or the error it throws
parseReply(content) ==
  LET json == JSONparse(extractJson(content))
  IN  IF ~json.ok THEN [ok |-> FALSE, out |-> JUndefined, error |-> SyntaxError]
      ELSE LET issues == ZodIssues(Output, json.v, <<>>)
           IN  IF issues = <<>>
               THEN [ok |-> TRUE, out |-> ZodValue(Output, json.v), error |-> NoError]
               ELSE [ok |-> FALSE, out |-> JUndefined, error |-> ZodError(issues)]

(***************************************************************************)
(* The message history                                                     *)
(***************************************************************************)

\* an optional value: the empty tuple is undefined, <<x>> is x
None == <<>>
Some(x) == <<x>>

\* ReactiveOrStatic<T>: an option is a value, Some(x), or a function;
\* Function(x) is a function that returns x when it is invoked now
Function(x) == <<x, "function">>
IsFunction(value) == Len(value) = 2

\* resolveToStatic(value): the value itself, or what the function returns
resolveToStatic(value) == IF IsFunction(value) THEN Some(value[1]) ELSE value

\* the invocations of the functions of opts that one pass through lines
\* 147-157 makes
Invocations(opts) ==
  [examples |-> IF IsFunction(opts.examples) THEN 1 ELSE 0,
   conversionHelp |-> IF IsFunction(opts.conversionHelp) THEN 1 ELSE 0]

DefaultMaxMessages == 10

\* this.options.maxMessages ?? 10
MaxMessagesOf(opts) ==
  IF opts.maxMessages = None THEN DefaultMaxMessages ELSE opts.maxMessages[1]

\* addMessagePair dropping the newest entry instead of the oldest
addMessagePairPop(history, message, opts) ==
  LET pushed == Append(history, message)
  IN  IF Len(pushed) > MaxMessagesOf(opts) THEN SubSeq(pushed, 1, Len(pushed) - 1)
      ELSE pushed

\* addMessagePair without the eviction
addMessagePairNoShift(history, message, opts) == Append(history, message)

\* addMessagePair(message): previousMessages afterwards
addMessagePair(history, message, opts) ==
  LET pushed == Append(history, message)
  IN  IF Len(pushed) > MaxMessagesOf(opts) THEN Tail(pushed) ELSE pushed

\* this.previousMessages.flat()
RECURSIVE Flat(_)
Flat(history) == IF history = <<>> THEN <<>> ELSE Head(history) \o Flat(Tail(history))

(***************************************************************************)
(* generate: the local variables of one call and the code between its      *)
(* suspension points (the awaits at lines 159 and 196).  The recursive     *)
(* call of line 236 runs in the caller's frame: its result is returned     *)
(* as it is, so the frame holds the innermost invocation's variables.      *)
(***************************************************************************)

Calls == {1, 2}

NoChat == [state |-> "none", message |-> NoMessage, error |-> NoError]
Pending == [state |-> "pending", message |-> NoMessage, error |-> NoError]
NoOutcome == [kind |-> "none", value |-> JUndefined, error |-> NoError]

IdleFrame ==
  [pc |-> "idle", input |-> JUndefined, retries |-> 0, fixTries |-> 0,
   explicit |-> None, examples |-> <<>>, prompt |-> <<>>,
   request |-> <<>>, chat |-> NoChat, response |-> NoMessage,
   exception |-> <<>>, i |-> 0, outcome |-> NoOutcome,
   \* history of the call, kept for the properties
   retries0 |-> 0, calls |-> 0, attemptCalls |-> 0, replies |-> <<>>,
   onlyViolating |-> TRUE, explicit0 |-> None,
   invoked |-> [examples |-> 0, conversionHelp |-> 0], assembled |-> <<>>,
   \* the calls started while this one was suspended
   later |-> {}]

\* lines 147-155: the example pairs as messages
RECURSIVE ExampleMessages(_)
ExampleMessages(examples) ==
  IF examples = <<>> THEN <<>>
  ELSE <<Message("user", JSONstringify(Head(examples).input)),
         Message("system", JSONstringify(Head(examples).output))>>
       \o ExampleMessages(Tail(examples))

\* #getPromptText; the second resolveToStatic of line 279 is applied to the
\* string already resolved and invokes nothing
getPromptText(opts) ==
  LET conversionHelp == resolveToStatic(opts.conversionHelp) IN
  <<"You are an AI that receives a JSON object and returns only another JSON object.\n* Your input will always be a JSON object that matches the following schema:\n",
    "{ introduction: string; }",
    "\n\n* Your output should be a JSON object that matches the following schema:\n",
    "{ name: string; age: number; }", "\n">>
  \o (IF conversionHelp # None /\ conversionHelp[1] # ""
      THEN <<"\n* A description on how to convert input to export object: ",
             conversionHelp[1], "\n\n">>
      ELSE <<>>)
  \o <<"\n* You can assume that the input will always be valid and match the schema.\n* You can assume that the input will always be a JSON object except incase you've provided an invalid output.\n* I will inform you if the output is invalid and you will have to provide a valid output.\n* Stricly follow the schema for the output.\n* Never return anything other than a JSON object.\n* Do not talk to the user.">>

\* lines 147-171 with the test of line 166 on the truth value of
\* previousMessages.length instead of typeof previousMessages
AssembleTruthyHistory(f, input, retries, fixTries, explicit, history, opts) ==
  LET resolved == resolveToStatic(opts.examples)
      examples == ExampleMessages(IF resolved = None THEN <<>> ELSE resolved[1])
      prompt   == getPromptText(opts)
  IN  [f EXCEPT
        !.pc = "awaitChat", !.input = input, !.retries = retries,
        !.fixTries = fixTries, !.explicit = explicit,
        !.examples = examples, !.prompt = prompt,
        !.request = examples \o <<Message("user", prompt)>>
                    \o (IF explicit # None /\ explicit[1] # <<>> THEN explicit[1]
                        ELSE Flat(history))
                    \o <<Message("user", JSONstringify(input))>>,
        !.chat = Pending, !.response = NoMessage, !.exception = <<>>, !.i = 0,
        !.outcome = NoOutcome,
        !.calls = @ + 1, !.attemptCalls = 1, !.replies = <<>>,
        !.invoked = Invocations(opts),
        !.assembled = examples \o <<Message("user", prompt)>>]

\* lines 147-171: resolve the examples and the prompt, send the first request
Assemble(f, input, retries, fixTries, explicit, history, opts) ==
  LET resolved == resolveToStatic(opts.examples)
      examples == ExampleMessages(IF resolved = None THEN <<>> ELSE resolved[1])
      prompt   == getPromptText(opts)
  IN  [f EXCEPT
        !.pc = "awaitChat", !.input = input, !.retries = retries,
        !.fixTries = fixTries, !.explicit = explicit,
        !.examples = examples, !.prompt = prompt,
        !.request = examples \o <<Message("user", prompt)>>
                    \o (IF explicit # None THEN explicit[1] ELSE Flat(history))
                    \o <<Message("user", JSONstringify(input))>>,
        !.chat = Pending, !.response = NoMessage, !.exception = <<>>, !.i = 0,
        !.outcome = NoOutcome,
        !.calls = @ + 1, !.attemptCalls = 1, !.replies = <<>>,
        !.invoked = Invocations(opts),
        !.assembled = examples \o <<Message("user", prompt)>>]

Throw(f, error) ==
  [f EXCEPT !.pc = "done", !.chat = NoChat,
            !.outcome = [kind |-> "threw", value |-> JUndefined, error |-> error]]

Return(f, out) ==
  [f EXCEPT !.pc = "done", !.chat = NoChat,
            !.outcome = [kind |-> "returned", value |-> out, error |-> NoError]]

\* lines 192-194
FixPrompt(exception) ==
  getErrorMessage(exception)
  \o <<"The output you provided was invalid, please provide a valid output that matches the schema. Those issues occured:\n">>
  \o getErrorMessage(exception)

\* lines 196-214 with the explicit history of line 166 in the repair
\* request as well
SendRetryWithHistory(f) ==
  [f EXCEPT
    !.pc = "awaitRetry",
    !.request = f.examples \o <<Message("user", f.prompt)>>
                \o (IF f.explicit # None THEN f.explicit[1] ELSE <<>>)
                \o <<Message("user", JSONstringify(f.input)),
                     Message("system", extractJson(f.response.content)),
                     Message("user", FixPrompt(f.exception))>>,
    !.chat = Pending, !.calls = @ + 1, !.attemptCalls = @ + 1]

\* lines 196-214 built from the reply rejected last and its error, where the
\* code uses response and exception of the attempt's first reply
SendRetryLastReply(f) ==
  LET last == f.replies[Len(f.replies)]
  IN  [f EXCEPT
        !.pc = "awaitRetry",
        !.request = f.examples \o <<Message("user", f.prompt),
                                    Message("user", JSONstringify(f.input)),
                                    Message("system", extractJson(last)),
                                    Message("user", FixPrompt(parseReply(last).error.issues))>>,
        !.chat = Pending, !.calls = @ + 1, !.attemptCalls = @ + 1]

\* lines 196-214: send the repair request
SendRetry(f) ==
  [f EXCEPT
    !.pc = "awaitRetry",
    !.request = f.examples \o <<Message("user", f.prompt),
                                Message("user", JSONstringify(f.input)),
                                Message("system", extractJson(f.response.content)),
                                Message("user", FixPrompt(f.exception))>>,
    !.chat = Pending, !.calls = @ + 1, !.attemptCalls = @ + 1]

\* line 239 throwing the error of the reply rejected last
ExhaustedLastRejected(f) == Throw(f, parseReply(f.replies[Len(f.replies)]).error)

\* line 239: throw e, the error of the invocation's first reply
Exhausted(f) == Throw(f, ZodError(f.exception))

\* the loop test of line 188 with i <= fixTries
RepairLoopOneMore(f, history, opts) ==
  IF f.i <= f.fixTries THEN SendRetry(f)
  ELSE IF f.retries > 0
    THEN Assemble(f, f.input, f.retries - 1, f.fixTries, None, history, opts)
  ELSE Exhausted(f)

\* line 236 handing the rejected reply to the recursive call as its
\* previousMessages
RepairLoopCarriesConversation(f, history, opts) ==
  IF f.i < f.fixTries THEN SendRetry(f)
  ELSE IF f.retries > 0
    THEN Assemble(f, f.input, f.retries - 1, f.fixTries,
                  Some(<<Message("system", extractJson(f.response.content))>>),
                  history, opts)
  ELSE Exhausted(f)

\* the loop body resolving options.examples and the prompt again before
\* each repair request, where the code uses the constants of lines 147-157
RepairLoopResolving(f, history, opts) ==
  IF f.i < f.fixTries
    THEN LET resolved == resolveToStatic(opts.examples)
         IN  SendRetry([f EXCEPT
               !.examples = ExampleMessages(IF resolved = None THEN <<>> ELSE resolved[1]),
               !.prompt = getPromptText(opts),
               !.invoked = [examples |-> @.examples + Invocations(opts).examples,
                            conversionHelp |-> @.conversionHelp
                                               + Invocations(opts).conversionHelp]])
  ELSE IF f.retries > 0
    THEN Assemble(f, f.input, f.retries - 1, f.fixTries, None, history, opts)
  ELSE Exhausted(f)

\* line 236 passing fixTries + 1 to the recursive call
RepairLoopGrowingFixTries(f, history, opts) ==
  IF f.i < f.fixTries THEN SendRetry(f)
  ELSE IF f.retries > 0
    THEN Assemble(f, f.input, f.retries - 1, f.fixTries + 1, None, history, opts)
  ELSE Exhausted(f)

\* lines 188-239 from the loop test on, with i = f.i: the next repair
\* request, the recursive call, or the throw
RepairLoop(f, history, opts) ==
  IF f.i < f.fixTries THEN SendRetry(f)
  ELSE IF f.retries > 0
    THEN Assemble(f, f.input, f.retries - 1, f.fixTries, None, history, opts)
  ELSE Exhausted(f)

\* the reply as recorded for the properties
Received(f, content) ==
  [f EXCEPT !.replies = Append(@, content),
            !.onlyViolating = @ /\ parseReply(content).error.kind = "ZodError"]

\* what a continuation of generate leaves: the frame, previousMessages, and
\* the pairs it handed to addMessagePair (none or one)
Step(frame, history, added) == [frame |-> frame, history |-> history, added |-> added]

\* the code after the await of line 159, treating a failed adapter call as
\* one more failed attempt
ContinueChatRetryingAdapter(f, history, opts) ==
  IF f.chat.state = "rejected" THEN
    Step(IF f.retries > 0
         THEN Assemble(f, f.input, f.retries - 1, f.fixTries, None, history, opts)
         ELSE Throw(f, f.chat.error), history, <<>>)
  ELSE
    LET response == f.chat.message
        res      == parseReply(response.content)
        pair     == <<Message("user", JSONstringify(f.input)), response>>
        g        == Received([f EXCEPT !.response = response], response.content)
    IN  IF res.ok THEN Step(Return(g, res.out), addMessagePair(history, pair, opts), <<pair>>)
        ELSE IF res.error.kind = "ZodError" THEN
          Step(RepairLoop([g EXCEPT !.exception = res.error.issues, !.i = 0], history, opts),
               history, <<>>)
        ELSE Step(Throw(g, res.error), history, <<>>)

\* the code after the await of line 159, storing the exchange of a reply
\* that the schema rejects as well
ContinueChatRecordsRejected(f, history, opts) ==
  IF f.chat.state = "rejected" THEN Step(Throw(f, f.chat.error), history, <<>>)
  ELSE
    LET response == f.chat.message
        res      == parseReply(response.content)
        pair     == <<Message("user", JSONstringify(f.input)), response>>
        g        == Received([f EXCEPT !.response = response], response.content)
    IN  IF res.ok THEN Step(Return(g, res.out), addMessagePair(history, pair, opts), <<pair>>)
        ELSE IF res.error.kind = "ZodError" THEN
          Step(RepairLoop([g EXCEPT !.exception = res.error.issues, !.i = 0], history, opts),
               addMessagePair(history, pair, opts), <<>>)
        ELSE Step(Throw(g, res.error), history, <<>>)

\* lines 159-243: the code after the await of line 159, up to the next
\* await, return or throw
ContinueChat(f, history, opts) ==
  IF f.chat.state = "rejected" THEN Step(Throw(f, f.chat.error), history, <<>>)
  ELSE
    LET response == f.chat.message
        res      == parseReply(response.content)
        pair     == <<Message("user", JSONstringify(f.input)), response>>
        g        == Received([f EXCEPT !.response = response], response.content)
    IN  IF res.ok THEN Step(Return(g, res.out), addMessagePair(history, pair, opts), <<pair>>)
        ELSE IF res.error.kind = "ZodError" THEN
          Step(RepairLoop([g EXCEPT !.exception = res.error.issues, !.i = 0], history, opts),
               history, <<>>)
        ELSE Step(Throw(g, res.error), history, <<>>)

\* the code after the await of line 196, parsing response (the rejected
\* reply) where the code parses retry
ContinueRetryParsesResponse(f, history, opts) ==
  IF f.chat.state = "rejected" THEN Step(Throw(f, f.chat.error), history, <<>>)
  ELSE
    LET retry == f.chat.message
        res   == parseReply(f.response.content)
        pair  == <<Message("user", JSONstringify(f.input)),
                   Message("system", extractJson(f.response.content))>>
        g     == Received(f, retry.content)
    IN  IF res.ok
        THEN Step(Return(g, res.out), addMessagePair(history, pair, opts), <<pair>>)
        ELSE Step(RepairLoop([g EXCEPT !.i = @ + 1], history, opts), history, <<>>)

\* the code after the await of line 196, storing the corrected reply (retry)
\* where the code stores the rejected one (response)
ContinueRetryStoresCorrected(f, history, opts) ==
  IF f.chat.state = "rejected" THEN Step(Throw(f, f.chat.error), history, <<>>)
  ELSE
    LET retry == f.chat.message
        res   == parseReply(retry.content)
        pair  == <<Message("user", JSONstringify(f.input)),
                   Message("system", extractJson(retry.content))>>
        g     == Received(f, retry.content)
    IN  IF res.ok THEN Step(Return(g, res.out), addMessagePair(history, pair, opts), <<pair>>)
        ELSE Step(RepairLoop([g EXCEPT !.i = @ + 1], history, opts), history, <<>>)

\* lines 196-239: the code after the await of line 196, up to the next
\* await, return or throw
ContinueRetry(f, history, opts) ==
  IF f.chat.state = "rejected" THEN Step(Throw(f, f.chat.error), history, <<>>)
  ELSE
    LET retry == f.chat.message
        res   == parseReply(retry.content)
        pair  == <<Message("user", JSONstringify(f.input)),
                   Message("system", extractJson(f.response.content))>>
        g     == Received(f, retry.content)
    IN  IF res.ok THEN Step(Return(g, res.out), addMessagePair(history, pair, opts), <<pair>>)
        ELSE Step(RepairLoop([g EXCEPT !.i = @ + 1], history, opts), history, <<>>)

\* the last n entries of a sequence
KeepLast(seq, n) == IF Len(seq) <= n THEN seq ELSE SubSeq(seq, Len(seq) - n + 1, Len(seq))

(***************************************************************************)
(* Actions.  env names what the callers and the backend of a run may do:   *)
(* [calls, inputs, retries, fixTries, explicits, replies, errors, overlap, *)
(* counted]; counted is how far the successful calls are counted.          *)
(***************************************************************************)

InFlight(c) == fr[c].pc \in {"awaitChat", "awaitRetry"}

harness == <<exStr, exOut, zErr, zOut>>

\* a caller invokes generate(input, retries, fixTries, explicit)
Generate(c, env) ==
  /\ ~InFlight(c)
  /\ env.overlap \/ \A d \in Calls : ~InFlight(d)
  /\ \E input \in env.inputs, retries \in env.retries, fixTries \in env.fixTries,
        explicit \in env.explicits :
       fr' = [d \in Calls |->
                IF d = c
                THEN Assemble([IdleFrame EXCEPT !.retries0 = retries,
                                                !.explicit0 = explicit], input,
                              retries, fixTries, explicit, previousMessages, options)
                ELSE IF InFlight(d) THEN [fr[d] EXCEPT !.later = @ \cup {c}]
                ELSE fr[d]]
  /\ UNCHANGED <<previousMessages, options, expected, completed, harness>>

\* the adapter's promise resolves with the backend's reply
ChatResolves(c, env) ==
  /\ InFlight(c) /\ fr[c].chat.state = "pending"
  /\ \E content \in env.replies :
       fr' = [fr EXCEPT ![c].chat = [state |-> "resolved",
                                     message |-> Message("assistant", content),
                                     error |-> NoError]]
  /\ UNCHANGED <<previousMessages, options, expected, completed, harness>>

\* the adapter's promise rejects
ChatRejects(c, env) ==
  /\ InFlight(c) /\ fr[c].chat.state = "pending"
  /\ \E id \in env.errors :
       fr' = [fr EXCEPT ![c].chat = [state |-> "rejected", message |-> NoMessage,
                                     error |-> AdapterError(id)]]
  /\ UNCHANGED <<previousMessages, options, expected, completed, harness>>

Continue(c, step, env) ==
  /\ fr' = [fr EXCEPT ![c] = step.frame]
  /\ previousMessages' = step.history
  /\ expected' = KeepLast(expected \o step.added, MaxMessagesOf(options))
  /\ completed' = IF completed + Len(step.added) > env.counted THEN env.counted
                  ELSE completed + Len(step.added)
  /\ UNCHANGED <<options, harness>>

\* generate resuming after line 159 with input read from a field of the
\* instance that the call started last has overwritten, where the code
\* reads the parameter of its own invocation
AfterChatSharedInput(c, env) ==
  /\ fr[c].pc = "awaitChat" /\ fr[c].chat.state \in {"resolved", "rejected"}
  /\ LET d == IF fr[c].later = {} THEN c ELSE CHOOSE e \in fr[c].later : TRUE
     IN  Continue(c, ContinueChat([fr[c] EXCEPT !.input = fr[d].input],
                                  previousMessages, options), env)

\* generate resumes after the await of line 159
AfterChat(c, env) ==
  /\ fr[c].pc = "awaitChat" /\ fr[c].chat.state \in {"resolved", "rejected"}
  /\ Continue(c, ContinueChat(fr[c], previousMessages, options), env)

\* line 196 without the await: the loop goes on while the repair request is
\* still with the backend
AfterRetryEager(c, env) ==
  /\ fr[c].pc = "awaitRetry" /\ fr[c].chat.state \in {"pending", "resolved", "rejected"}
  /\ Continue(c, ContinueRetry(fr[c], previousMessages, options), env)

\* generate resumes after the await of line 196
AfterRetry(c, env) ==
  /\ fr[c].pc = "awaitRetry" /\ fr[c].chat.state \in {"resolved", "rejected"}
  /\ Continue(c, ContinueRetry(fr[c], previousMessages, options), env)

(***************************************************************************)
(* The runs checked                                                        *)
(***************************************************************************)

MaxRetries == 2
MaxFixTries == 2
HistoryMaxRetries == 1
HistoryMaxFixTries == 1
HistoryMaxMessages == 2
MaxCounted == 3
DefaultMaxCounted == 11

K_introduction == <<"i", "n", "t", "r", "o", "d", "u", "c", "t", "i", "o", "n">>
S_Bob == <<"\"", "B", "o", "b", "\"">>
Q_name == <<"\"">> \o K_name \o <<"\"">>
Q_age == <<"\"">> \o K_age \o <<"\"">>

InputA == JObj(<< <<K_introduction, JStr(<<"a">>)>> >>)
InputB == JObj(<< <<K_introduction, JStr(<<"b">>)>> >>)

\* {"name":"Bob","age":30}
ReplyValid == <<"{">> \o Q_name \o <<":">> \o S_Bob \o <<",">> \o Q_age \o <<":", "3", "0", "}">>
\* ok {"name":"Bob","age":7}.
ReplyProse ==
  <<"o", "k", " ", "{">> \o Q_name \o <<":">> \o S_Bob \o <<",">> \o Q_age \o <<":", "7", "}", ".">>
\* {"name":"Bob"}
ReplyMissing == <<"{">> \o Q_name \o <<":">> \o S_Bob \o <<"}">>
\* {"name":"Bob","age":"x"}
ReplyWrongType ==
  <<"{">> \o Q_name \o <<":">> \o S_Bob \o <<",">> \o Q_age \o <<":", "\"", "x", "\"", "}">>
\* no
ReplyNoBraces == <<"n", "o">>
\* {"name":}
ReplyBadJson == <<"{">> \o Q_name \o <<":", "}">>
\* 1{
ReplyNumberBrace == <<"1", "{">>

Example == [input |-> InputA,
            output |-> JObj(<< <<K_name, JStr(<<"A", "l">>)>>, <<K_age, JNum(<<"2", "1">>)>> >>)]

IdleHarness == exStr = <<>> /\ exOut = None /\ zErr = <<>> /\ zOut = None

InitOver(maxMessagesSet) ==
  /\ previousMessages = <<>>
  /\ options \in [maxMessages : maxMessagesSet,
                  conversionHelp : {Some("map the introduction")},
                  examples : {Some(<<Example>>)}]
  /\ fr = [c \in Calls |-> IdleFrame]
  /\ expected = <<>>
  /\ completed = 0
  /\ IdleHarness

NextOver(env) ==
  \E c \in env.calls :
    \/ Generate(c, env)
    \/ ChatResolves(c, env)
    \/ ChatRejects(c, env)
    \/ AfterChat(c, env)
    \/ AfterRetry(c, env)

\* one caller awaiting each call, any reply of the backend
Env ==
  [calls |-> {1}, inputs |-> {InputA}, retries |-> 0..MaxRetries,
   fixTries |-> 0..MaxFixTries, explicits |-> {None},
   replies |-> {ReplyValid, ReplyProse, ReplyMissing, ReplyWrongType,
                ReplyNoBraces, ReplyBadJson, ReplyNumberBrace},
   errors |-> {"ECONNREFUSED"}, overlap |-> FALSE, counted |-> 1]

Init == InitOver({Some(1)})
Next == NextOver(Env)
Spec == Init /\ [][Next]_vars

\* the promise that call c awaits is settled and c has not resumed yet:
\* the states in which AfterChat(c) or AfterRetry(c) can be taken
Settled(c) == InFlight(c) /\ fr[c].chat.state \in {"resolved", "rejected"}

\* the same run with a backend that settles every request (adapter.chat
\* resolves or rejects) and a scheduler that resumes generate once the
\* promise it awaits is settled: AfterChat and AfterRetry are the only
\* steps that leave Settled(c), so []<>~Settled(c) is weak fairness of both
Fairness ==
  \A c \in Env.calls :
    /\ WF_vars(ChatResolves(c, Env) \/ ChatRejects(c, Env))
    /\ []<>~Settled(c)
SpecLive == Init /\ [][Next]_vars /\ Fairness

\* the history under sequences of calls: maxMessages omitted, 1 or more
HistoryEnv ==
  [calls |-> {1}, inputs |-> {InputA, InputB}, retries |-> 0..HistoryMaxRetries,
   fixTries |-> 0..HistoryMaxFixTries, explicits |-> {None},
   replies |-> {ReplyValid, ReplyMissing, ReplyNoBraces},
   errors |-> {"ECONNREFUSED"}, overlap |-> FALSE, counted |-> MaxCounted]

InitHistory == InitOver({Some(n) : n \in 1..HistoryMaxMessages})
NextHistory == NextOver(HistoryEnv)
SpecHistory == InitHistory /\ [][NextHistory]_vars

\* the same with maxMessages omitted as well: one input, so that the ten
\* entries of the default bound are within reach
DefaultEnv ==
  [calls |-> {1}, inputs |-> {InputA}, retries |-> {0},
   fixTries |-> 0..HistoryMaxFixTries, explicits |-> {None},
   replies |-> {ReplyValid, ReplyMissing, ReplyNoBraces},
   errors |-> {"ECONNREFUSED"}, overlap |-> FALSE, counted |-> DefaultMaxCounted]

InitDefault == InitOver({None} \cup {Some(n) : n \in 1..HistoryMaxMessages})
NextDefault == NextOver(DefaultEnv)
SpecDefault == InitDefault /\ [][NextDefault]_vars

\* calls that pass previousMessages, the fourth argument of generate: left
\* out, empty, or one earlier exchange
ExplicitHistory ==
  <<Message("user", <<"h", "i">>), Message("assistant", <<"{", "}">>)>>

\* ok {"name":"Bob"}.
ReplyProseMissing == <<"o", "k", " ">> \o ReplyMissing \o <<".">>

ExplicitEnv ==
  [calls |-> {1}, inputs |-> {InputA, InputB}, retries |-> 0..HistoryMaxRetries,
   fixTries |-> 0..HistoryMaxFixTries,
   explicits |-> {None, Some(<<>>), Some(ExplicitHistory)},
   replies |-> {ReplyValid, ReplyProseMissing},
   errors |-> {"ECONNREFUSED"}, overlap |-> FALSE, counted |-> 1]

InitExplicit == InitOver({Some(HistoryMaxMessages)})
NextExplicit == NextOver(ExplicitEnv)
SpecExplicit == InitExplicit /\ [][NextExplicit]_vars

\* options.examples and options.conversionHelp given as functions: what
\* they return may change at any moment, also while a call is suspended
ReactiveExamples == {<<>>, <<Example>>}
ReactiveHelp == {"", "map the introduction"}

ReactiveEnv ==
  [calls |-> {1}, inputs |-> {InputA}, retries |-> 0..HistoryMaxRetries,
   fixTries |-> 0..MaxFixTries, explicits |-> {None},
   replies |-> {ReplyValid, ReplyMissing},
   errors |-> {"ECONNREFUSED"}, overlap |-> FALSE, counted |-> 1]

InitReactive ==
  /\ previousMessages = <<>>
  /\ options \in [maxMessages : {Some(1)},
                  conversionHelp : {Function(h) : h \in ReactiveHelp},
                  examples : {Function(e) : e \in ReactiveExamples}]
  /\ fr = [c \in Calls |-> IdleFrame]
  /\ expected = <<>>
  /\ completed = 0
  /\ IdleHarness

\* the state the functions read changes: from now on they return other values
ProducerChanges ==
  /\ \E e \in ReactiveExamples, h \in ReactiveHelp :
       /\ options' = [options EXCEPT !.examples = Function(e),
                                     !.conversionHelp = Function(h)]
       /\ options' # options
  /\ UNCHANGED <<previousMessages, fr, expected, completed, harness>>

NextReactive == NextOver(ReactiveEnv) \/ ProducerChanges
SpecReactive == InitReactive /\ [][NextReactive]_vars

\* options and previousMessages are public fields: between the steps of
\* generate the caller may assign options.maxMessages and push entries of
\* its own
MutableMaxMessages == 2
MaxExtended == 3

MutableEnv ==
  [calls |-> {1}, inputs |-> {InputA}, retries |-> {0},
   fixTries |-> 0..HistoryMaxFixTries, explicits |-> {None},
   replies |-> {ReplyValid, ReplyMissing},
   errors |-> {"ECONNREFUSED"}, overlap |-> FALSE, counted |-> 1]

InitMutable == InitOver({Some(n) : n \in 1..MutableMaxMessages})

\* generator.options.maxMessages = n
SetMaxMessages ==
  /\ \E n \in 1..MutableMaxMessages :
       /\ options.maxMessages # Some(n)
       /\ options' = [options EXCEPT !.maxMessages = Some(n)]
  /\ UNCHANGED <<previousMessages, fr, expected, completed, harness>>

\* generator.previousMessages.push(ExplicitHistory)
ExtendHistory ==
  /\ Len(previousMessages) < MaxExtended
  /\ previousMessages' = Append(previousMessages, ExplicitHistory)
  /\ UNCHANGED <<options, fr, expected, completed, harness>>

NextMutable == NextOver(MutableEnv) \/ SetMaxMessages \/ ExtendHistory
SpecMutable == InitMutable /\ [][NextMutable]_vars

\* two calls of generate on one instance, each made once, the second
\* possibly while the first is suspended at an await; an entry of an
\* earlier call may be stored already
ConcurrentMaxFixTries == 1
ConcurrentMaxMessages == 2

ConcurrentEnv ==
  [calls |-> Calls, inputs |-> {InputA, InputB}, retries |-> {0},
   fixTries |-> 0..ConcurrentMaxFixTries, explicits |-> {None},
   replies |-> {ReplyValid, ReplyProse, ReplyMissing},
   errors |-> {"ECONNREFUSED"}, overlap |-> TRUE, counted |-> 1]

EarlierEntry ==
  <<Message("user", JSONstringify(InputA)), Message("assistant", ReplyValid)>>

InitConcurrent ==
  /\ previousMessages \in {<<>>, <<EarlierEntry>>}
  /\ options \in [maxMessages : {Some(n) : n \in 1..ConcurrentMaxMessages},
                  conversionHelp : {Some("map the introduction")},
                  examples : {Some(<<Example>>)}]
  /\ fr = [c \in Calls |-> IdleFrame]
  /\ expected = previousMessages
  /\ completed = 0
  /\ IdleHarness

\* the one call of generate that caller c makes
GenerateOnce(c) == fr[c].pc = "idle" /\ Generate(c, ConcurrentEnv)

NextConcurrent ==
  \E c \in Calls :
    \/ GenerateOnce(c)
    \/ ChatResolves(c, ConcurrentEnv)
    \/ ChatRejects(c, ConcurrentEnv)
    \/ AfterChat(c, ConcurrentEnv)
    \/ AfterRetry(c, ConcurrentEnv)

SpecConcurrent == InitConcurrent /\ [][NextConcurrent]_vars

(***************************************************************************)
(* #extractJson and #getErrorMessage on their own: the argument is drawn   *)
(* at the start, the action applies the function.                          *)
(***************************************************************************)

MaxStringLen == 4
MaxIssues == 2

ExtractAlphabet == {"{", "}", "1", " "}

Strings == UNION {[1..n -> ExtractAlphabet] : n \in 0..MaxStringLen}

EngineIdle ==
  /\ previousMessages = <<>>
  /\ options = [maxMessages |-> None, conversionHelp |-> None, examples |-> None]
  /\ fr = [c \in Calls |-> IdleFrame]
  /\ expected = <<>>
  /\ completed = 0

InitExtract ==
  /\ EngineIdle
  /\ exStr \in Strings /\ exOut = None
  /\ zErr = <<>> /\ zOut = None

\* this.#extractJson(exStr)
ExtractJson ==
  /\ exOut = None
  /\ exOut' = Some(extractJson(exStr))
  /\ UNCHANGED <<previousMessages, options, fr, expected, completed, exStr, zErr, zOut>>

SpecExtract == InitExtract /\ [][ExtractJson]_vars

OtherIssue(code, path, message) ==
  [code |-> code, path |-> path, message |-> message,
   expected |-> "", received |-> "", unionErrors |-> <<>>]

\* issues as zod reports them: type mismatches at the top level and below,
\* a missing key, a refinement, unions (one with a union inside)
Issues ==
  {InvalidType("number", "string", <<"age">>),
   InvalidType("string", "undefined", <<"name">>),
   InvalidType("object", "number", <<>>),
   InvalidType("string", "number", <<"address", "city">>),
   OtherIssue("too_small", <<"age">>, "Number must be greater than or equal to 0"),
   InvalidUnion(<<"id">>, << <<InvalidType("string", "null", <<"id">>)>>,
                            <<InvalidType("number", "null", <<"id">>)>> >>),
   InvalidUnion(<<"id">>, << <<InvalidType("string", "number", <<"id">>)>>,
                            <<OtherIssue("too_small", <<"id">>,
                                         "Number must be greater than 0")>> >>),
   InvalidUnion(<<"v">>, << <<InvalidUnion(<<"v">>,
                                << <<InvalidType("string", "null", <<"v">>)>>,
                                   <<InvalidType("number", "null", <<"v">>)>> >>)>>,
                           <<InvalidType("object", "null", <<"v">>)>> >>)}

IssueLists == UNION {[1..n -> Issues] : n \in 1..MaxIssues}

InitMessage ==
  /\ EngineIdle
  /\ exStr = <<>> /\ exOut = None
  /\ zErr \in IssueLists /\ zOut = None

\* this.#getErrorMessage(exception) with exception.errors = zErr
GetErrorMessage ==
  /\ zOut = None
  /\ zOut' = Some(getErrorMessage(zErr))
  /\ UNCHANGED <<previousMessages, options, fr, expected, completed, exStr, exOut, zErr>>

SpecMessage == InitMessage /\ [][GetErrorMessage]_vars

(***************************************************************************)
(* Properties                                                              *)
(***************************************************************************)

\* what JSON.parse and the Output schema make of a reply, written out
ReplyJson(content) == JSONparse(extractJson(content))
SchemaValid(content) ==
  ReplyJson(content).ok /\ ZodIssues(Output, ReplyJson(content).v, <<>>) = <<>>
SchemaViolating(content) ==
  ReplyJson(content).ok /\ ZodIssues(Output, ReplyJson(content).v, <<>>) # <<>>
Unparseable(content) == ~ReplyJson(content).ok

Returned(c) == fr[c].pc = "done" /\ fr[c].outcome.kind = "returned"
Threw(c, kind) ==
  fr[c].pc = "done" /\ fr[c].outcome.kind = "threw" /\ fr[c].outcome.error.kind = kind
LastReply(c) == fr[c].replies[Len(fr[c].replies)]

\* C1: whenever generate has returned, the value returned is an object that
\* conforms to the Output schema, and it is the validated value of the reply
\* received last; no return hands out an unvalidated value or null.
C1_ReturnedValueValidated ==
  \A c \in Calls :
    Returned(c) =>
      /\ fr[c].outcome.value.k = "object"
      /\ ZodIssues(Output, fr[c].outcome.value, <<>>) = <<>>
      /\ fr[c].replies # <<>>
      /\ SchemaValid(LastReply(c))
      /\ fr[c].outcome.value = ZodValue(Output, ReplyJson(LastReply(c)).v)

\* C1 witness: a return after an outer retry and a repair iteration
C1_Witness ==
  /\ Returned(1)
  /\ fr[1].retries < fr[1].retries0
  /\ fr[1].attemptCalls > 1

\* C2 as stated: with every reply parseable and schema-violating, generate
\* ends by throwing after exactly (retries + 1) * fixTries backend calls.
C2_Original ==
  \A c \in Calls :
    (fr[c].pc = "done" /\ fr[c].onlyViolating /\ fr[c].replies # <<>>
       /\ fr[c].outcome.error.kind # "AdapterError")
    => /\ Threw(c, "ZodError")
       /\ fr[c].calls = (fr[c].retries0 + 1) * fr[c].fixTries

\* C2 amended: with every reply parseable and schema-violating (and no
\* adapter failure), generate ends by throwing the validation error after
\* exactly (retries + 1) * (1 + fixTries) backend calls: each attempt makes
\* one initial call and fixTries repair calls.
C2_CallsUntilExhaustion ==
  \A c \in Calls :
    (fr[c].pc = "done" /\ fr[c].onlyViolating /\ fr[c].replies # <<>>
       /\ fr[c].outcome.error.kind # "AdapterError")
    => /\ Threw(c, "ZodError")
       /\ fr[c].calls = (fr[c].retries0 + 1) * (1 + fr[c].fixTries)

\* C2 witness: retries = 1 and fixTries = 2 exhausted after 6 calls
C2_Witness ==
  /\ Threw(1, "ZodError") /\ fr[1].onlyViolating
  /\ fr[1].retries0 = 1 /\ fr[1].fixTries = 2 /\ fr[1].calls = 6

\* C3 as stated: when the first reply of an attempt is not parseable JSON,
\* generate does not fail before the budget is used: if it throws, the
\* attempt has made its fixTries repair calls and no outer retry is left.
C3_ParseFailureEntersRepair ==
  \A c \in Calls :
    (fr[c].pc = "done" /\ fr[c].outcome.kind = "threw"
       /\ fr[c].outcome.error.kind # "AdapterError"
       /\ fr[c].replies # <<>> /\ Unparseable(fr[c].replies[1]))
    => /\ fr[c].retries = 0
       /\ fr[c].attemptCalls = 1 + fr[c].fixTries

\* C4: once the adapter's promise has rejected, the next step of that call
\* ends it with the adapter's error as it is, and with no further backend
\* call, repair iteration, outer retry or history entry.
C4_AdapterFailurePropagates ==
  [][\A c \in Calls :
       fr[c].chat.state = "rejected" =>
         \/ fr'[c] = fr[c]
         \/ /\ fr'[c].pc = "done"
            /\ fr'[c].outcome = [kind |-> "threw", value |-> JUndefined,
                                 error |-> fr[c].chat.error]
            /\ fr'[c].outcome.error.kind = "AdapterError"
            /\ fr'[c].calls = fr[c].calls
            /\ fr'[c].attemptCalls = fr[c].attemptCalls
            /\ fr'[c].retries = fr[c].retries
            /\ fr'[c].i = fr[c].i
            /\ previousMessages' = previousMessages]_vars

\* C4 witness: the adapter failed on a repair call of a retried attempt
C4_Witness ==
  /\ Threw(1, "AdapterError")
  /\ fr[1].retries < fr[1].retries0
  /\ fr[1].attemptCalls > 1

\* C7 as stated: the error of an exhausted generate carries the violations
\* of the reply rejected last in that call.
C7_Original ==
  \A c \in Calls :
    Threw(c, "ZodError") =>
      /\ SchemaViolating(LastReply(c))
      /\ fr[c].outcome.error.issues = ZodIssues(Output, ReplyJson(LastReply(c)).v, <<>>)

\* C7 amended: the error of an exhausted generate carries the violations of
\* the first reply of the last attempt (the one the repair loop started
\* from), whatever the repair replies were rejected for; it is thrown with
\* no retry left and all fixTries repair calls of that attempt made.
C7_ExhaustionCarriesInitialViolations ==
  \A c \in Calls :
    Threw(c, "ZodError") =>
      /\ fr[c].retries = 0
      /\ fr[c].attemptCalls = 1 + fr[c].fixTries
      /\ SchemaViolating(fr[c].replies[1])
      /\ fr[c].outcome.error.issues
           = ZodIssues(Output, ReplyJson(fr[c].replies[1]).v, <<>>)

\* C7 witness: exhausted, and the reply rejected last violates the schema
\* otherwise than the attempt's first reply
C7_Witness ==
  /\ Threw(1, "ZodError")
  /\ Len(fr[1].replies) > 1
  /\ SchemaViolating(LastReply(1))
  /\ ZodIssues(Output, ReplyJson(LastReply(1)).v, <<>>)
       # ZodIssues(Output, ReplyJson(fr[1].replies[1]).v, <<>>)

\* the replies of the attempt: the first violates the schema, the k-th
\* repair reply is the first reply that conforms
FirstValidRepair(c, k) ==
  /\ k >= 1 /\ Len(fr[c].replies) >= 1 + k
  /\ SchemaViolating(fr[c].replies[1])
  /\ SchemaValid(fr[c].replies[1 + k])
  /\ \A j \in 1..k : ~SchemaValid(fr[c].replies[j])

\* C8: when the first reply of an attempt violates the schema and the k-th
\* repair reply is the first that conforms, generate has returned that
\* reply's validated value after exactly 1 + k backend calls of the attempt,
\* with no outer retry after it (k <= fixTries).
C8_RepairReturnsAtFirstValid ==
  \A c \in Calls : \A k \in 1..(MaxFixTries + 1) :
    FirstValidRepair(c, k) =>
      /\ Returned(c)
      /\ k <= fr[c].fixTries
      /\ Len(fr[c].replies) = 1 + k
      /\ fr[c].attemptCalls = 1 + k
      /\ fr[c].outcome.value = ZodValue(Output, ReplyJson(fr[c].replies[1 + k]).v)

\* C8 witness: the second repair reply is the first that conforms
C8_Witness ==
  /\ Returned(1)
  /\ fr[1].replies = <<ReplyMissing, ReplyWrongType, ReplyValid>>
  /\ fr[1].attemptCalls = 3

\* C5: from an empty history and with maxMessages fixed (10 when the option
\* is omitted), the history never holds more than maxMessages entries.
C5_HistoryBounded ==
  /\ options.maxMessages = None => Len(previousMessages) <= 10
  /\ options.maxMessages # None => Len(previousMessages) <= options.maxMessages[1]

\* C5 witness: maxMessages omitted, the eleventh successful call has just
\* returned and ten entries are stored
C5_Witness ==
  /\ options.maxMessages = None
  /\ completed = 11
  /\ Returned(1)
  /\ Len(previousMessages) = 10

Min(a, b) == IF a <= b THEN a ELSE b

\* the entry a successful call of input stores: its user turn is the
\* serialized input
EntryOf(entry, input) ==
  entry[1] = Message("user", JSONstringify(input)) /\ Len(entry) = 2

\* C6: the history is the entries of the last min(n, maxMessages) successful
\* calls, oldest first, n being the number of successful calls so far (n is
\* counted up to MaxCounted).
C6_FifoEviction ==
  /\ previousMessages = expected
  /\ completed < MaxCounted =>
       Len(previousMessages) = Min(completed, MaxMessagesOf(options))
  /\ completed = MaxCounted =>
       Len(previousMessages) >= Min(MaxCounted, MaxMessagesOf(options))
  /\ \A c \in Calls :
       Returned(c) => EntryOf(previousMessages[Len(previousMessages)], fr[c].input)

\* C6 witness: maxMessages = 1, three calls have succeeded, and the only
\* entry left is the one of the call that returned last
C6_Witness ==
  /\ options.maxMessages = Some(1)
  /\ completed = 3
  /\ Returned(1) /\ fr[1].input = InputB
  /\ Len(previousMessages) = 1
  /\ EntryOf(previousMessages[1], InputB)

Range(seq) == {seq[i] : i \in 1..Len(seq)}

RECURSIVE Dotted(_)
Dotted(path) ==
  IF Len(path) = 0 THEN ""
  ELSE IF Len(path) = 1 THEN Head(path)
  ELSE Head(path) \o "." \o Dotted(Tail(path))

\* <path>: Received <X> but expected <Y>, <message>
LineReceived(e) ==
  "* " \o Dotted(e.path) \o ": Received " \o e.received \o " but expected " \o e.expected
       \o ", " \o e.message \o "\n"

\* <path>: <message>
LinePlain(e) == "* " \o Dotted(e.path) \o ": " \o e.message \o "\n"

\* the violations listed for one top-level violation: itself, or for a
\* union the violations of all its branches
RECURSIVE Flattened(_)
Flattened(branches) ==
  IF branches = <<>> THEN <<>> ELSE Head(branches) \o Flattened(Tail(branches))

RECURSIVE LinesExpected(_)
LinesExpected(errors) ==
  IF errors = <<>> THEN 0
  ELSE (IF Head(errors).code = "invalid_union"
        THEN Len(Flattened(Head(errors).unionErrors)) ELSE 1)
       + LinesExpected(Tail(errors))

\* C9 as stated: every type mismatch, at the top level or in a branch of a
\* union, has its line "<path>: Received <X> but expected <Y>, <message>"
\* in the message.
C9_Original ==
  zOut # None =>
    \A i \in 1..Len(zErr) :
      /\ zErr[i].code = "invalid_type" => LineReceived(zErr[i]) \in Range(zOut[1])
      /\ zErr[i].code = "invalid_union" =>
           \A e \in Range(Flattened(zErr[i].unionErrors)) :
             e.code = "invalid_type" => LineReceived(e) \in Range(zOut[1])

\* C9 amended: a violation that is not a union has the line
\* "<path>: <message>" (a type mismatch at age: "age: Expected number,
\* received string"); a union is replaced by the lines of the violations of
\* all its branches, one level deep, a type mismatch among them as
\* "<path>: Received <X> but expected <Y>, <message>" and any other as
\* "<path>: <message>"; the message has no other line.
C9_CorrectionLines ==
  zOut # None =>
    /\ \A i \in 1..Len(zErr) :
         /\ zErr[i].code # "invalid_union" => LinePlain(zErr[i]) \in Range(zOut[1])
         /\ zErr[i].code = "invalid_union" =>
              \A e \in Range(Flattened(zErr[i].unionErrors)) :
                IF e.code = "invalid_type" THEN LineReceived(e) \in Range(zOut[1])
                ELSE LinePlain(e) \in Range(zOut[1])
    /\ Len(zOut[1]) = LinesExpected(zErr)
    /\ (zErr = <<InvalidType("number", "string", <<"age">>)>>
          => zOut[1] = <<"* age: Expected number, received string\n">>)

\* C9 witness: a type mismatch at age and a union with two branches
C9_Witness ==
  /\ zOut # None
  /\ Len(zErr) = 2
  /\ zErr[1] = InvalidType("number", "string", <<"age">>)
  /\ zErr[2].code = "invalid_union"
  /\ zOut[1] = <<"* age: Expected number, received string\n",
                 "* id: Received null but expected string, Expected string, received null\n",
                 "* id: Received null but expected number, Expected number, received null\n">>

\* 1-based positions of the first "{" and the last "}", 0 when absent
FirstOpen(str) ==
  IF \E i \in 1..Len(str) : str[i] = "{"
  THEN CHOOSE i \in 1..Len(str) : str[i] = "{" /\ \A j \in 1..(i - 1) : str[j] # "{"
  ELSE 0
LastClose(str) ==
  IF \E i \in 1..Len(str) : str[i] = "}"
  THEN CHOOSE i \in 1..Len(str) : str[i] = "}" /\ \A j \in (i + 1)..Len(str) : str[j] # "}"
  ELSE 0

\* C10 as stated: with a "{" and a later "}" the extractor returns the
\* characters from the first "{" through the last "}"; when either is
\* missing, or the last "}" precedes the first "{", it returns the empty
\* string or a string that is not parseable JSON.
C10_Extractor ==
  exOut # None =>
    LET open == FirstOpen(exStr)
        close == LastClose(exStr)
    IN  IF open # 0 /\ close # 0 /\ open < close
        THEN exOut[1] = SubSeq(exStr, open, close)
        ELSE exOut[1] = <<>> \/ ~JSONparse(exOut[1]).ok

\* the step of call c stores one entry for c's input: the entry is pushed
\* and at most the oldest entry leaves
Appended(c) ==
  /\ previousMessages' # <<>>
  /\ LET entry == previousMessages'[Len(previousMessages')]
     IN  /\ EntryOf(entry, fr[c].input)
         /\ \/ previousMessages' = Append(previousMessages, entry)
            \/ previousMessages' = Tail(Append(previousMessages, entry))

\* C11: a step of a generate call changes the history only when it is the
\* step in which the call returns, and then by appending exactly one entry
\* whose user turn is the serialized input of the call; every other step of
\* a call (a rejected first reply, a rejected repair reply, an outer retry,
\* the throw of the exhaustion error or of an adapter error) leaves the
\* history as it is, so a failed call ends with the history it started with.
C11_HistoryChangesOnlyOnSuccess ==
  [][/\ \A c \in Calls :
          fr'[c] # fr[c] =>
            IF InFlight(c) /\ fr'[c].pc = "done" /\ fr'[c].outcome.kind = "returned"
            THEN Appended(c)
            ELSE previousMessages' = previousMessages
     /\ previousMessages' # previousMessages => \E c \in Calls : fr'[c] # fr[c]]_vars

\* C11 witness: after an earlier success, a call with retries = 1 and
\* fixTries = 1 has failed by exhaustion after its four backend calls
C11_Witness ==
  /\ Threw(1, "ZodError")
  /\ fr[1].retries0 = 1 /\ fr[1].fixTries = 1 /\ fr[1].calls = 4
  /\ completed >= 1
  /\ previousMessages # <<>>

\* the entry stored last
LastEntry == previousMessages[Len(previousMessages)]

\* the turn of the model's side of an exchange: role system or assistant
ModelTurn(m) == m.role \in {"system", "assistant"}

\* C12: when generate has returned from a repair iteration (the first or a
\* later one), the entry stored is the serialized input and, as the model's
\* turn, the JSON text of the attempt's first reply, the reply the schema
\* rejected; it is not the text of the corrected reply whose value is
\* returned.
C12_RepairStoresRejectedReply ==
  \A c \in Calls :
    (Returned(c) /\ fr[c].attemptCalls > 1) =>
      /\ previousMessages # <<>>
      /\ LastEntry = <<Message("user", JSONstringify(fr[c].input)),
                       Message("system", extractJson(fr[c].replies[1]))>>
      /\ SchemaViolating(fr[c].replies[1])
      /\ LastEntry[2].content # extractJson(LastReply(c))
      /\ fr[c].outcome.value = ZodValue(Output, ReplyJson(LastReply(c)).v)

\* C12 witness: the second repair iteration succeeded; the entry holds the
\* first reply, not the second (rejected too) and not the third (returned)
C12_Witness ==
  /\ Returned(1)
  /\ fr[1].replies = <<ReplyWrongType, ReplyMissing, ReplyValid>>
  /\ fr[1].i = 1
  /\ LastEntry[2] = Message("system", ReplyWrongType)

\* the example pairs in the order of options.examples, input turn then
\* output turn of each
ExampleTurns ==
  LET examples == IF options.examples = None THEN <<>> ELSE options.examples[1]
  IN  [k \in 1..(2 * Len(examples)) |->
         IF k % 2 = 1 THEN Message("user", JSONstringify(examples[(k + 1) \div 2].input))
         ELSE Message("system", JSONstringify(examples[k \div 2].output))]

\* the turns of the stored entries (pairs), oldest entry first
HistoryTurns ==
  [k \in 1..(2 * Len(previousMessages)) |->
     previousMessages[(k + 1) \div 2][IF k % 2 = 1 THEN 1 ELSE 2]]

\* C13: while the first request of an attempt is with the backend, it is, in
\* order: the example pairs (input turn, then output turn), the prompt as a
\* user turn, the previousMessages argument of the invocation making the
\* attempt when it was passed (an empty list included, which then
\* contributes nothing) and otherwise the stored entries flattened oldest
\* first, and the serialized input as the last user turn.
C13_InitialRequest ==
  \A c \in Calls :
    fr[c].pc = "awaitChat" =>
      fr[c].request
        = ExampleTurns
          \o <<Message("user", getPromptText(options))>>
          \o (IF fr[c].explicit # None THEN fr[c].explicit[1] ELSE HistoryTurns)
          \o <<Message("user", JSONstringify(fr[c].input))>>

\* C13 witness: an empty explicit history was passed while two entries are
\* stored: the request is the example pair, the prompt and the input only
C13_Witness ==
  /\ fr[1].pc = "awaitChat"
  /\ fr[1].explicit = Some(<<>>)
  /\ Len(previousMessages) = 2
  /\ Len(fr[1].request) = 4
  /\ fr[1].request[4] = Message("user", JSONstringify(fr[1].input))

\* the correction message for a reply that violates the schema
CorrectionFor(content) == FixPrompt(ZodIssues(Output, ReplyJson(content).v, <<>>))

\* C14: while a repair request is with the backend, it is exactly the
\* example pairs, the prompt, the serialized input, the JSON text of the
\* rejected reply as a turn of the model's side, and the correction
\* message: nothing else, so no turn of the explicit history passed to
\* generate and no turn of a stored entry.
C14_RepairRequest ==
  \A c \in Calls :
    fr[c].pc = "awaitRetry" =>
      LET n == Len(ExampleTurns)
          request == fr[c].request
      IN  /\ Len(request) = n + 4
          /\ SubSeq(request, 1, n) = ExampleTurns
          /\ request[n + 1] = Message("user", getPromptText(options))
          /\ request[n + 2] = Message("user", JSONstringify(fr[c].input))
          /\ ModelTurn(request[n + 3])
          /\ request[n + 3].content = extractJson(fr[c].replies[1])
          /\ request[n + 4] = Message("user", CorrectionFor(fr[c].replies[1]))
          /\ fr[c].explicit # None =>
               \A m \in Range(fr[c].explicit[1]) : m \notin Range(request)
          /\ \A k \in 1..Len(previousMessages) :
               previousMessages[k][1] \notin Range(ExampleTurns) \cup {request[n + 2]}
                 => previousMessages[k][1] \notin Range(request)

\* C14 witness: a repair request of a call that was given an explicit
\* history, while an entry for another input (not an example either) is
\* stored
C14_Witness ==
  /\ fr[1].pc = "awaitRetry"
  /\ fr[1].explicit = Some(ExplicitHistory)
  /\ fr[1].replies = <<ReplyProseMissing>>
  /\ fr[1].input = InputA
  /\ previousMessages # <<>>
  /\ previousMessages[1][1] = Message("user", JSONstringify(InputB))

\* the rejected reply and the correction message of the repair request
RejectedTurn(c) == fr[c].request[Len(fr[c].request) - 1]
CorrectionTurn(c) == fr[c].request[Len(fr[c].request)]

\* C15 as stated: the rejected reply in a repair request is the reply
\* received immediately before it and, when that reply violates the schema,
\* the correction message lists its violations.
C15_Original ==
  \A c \in Calls :
    fr[c].pc = "awaitRetry" =>
      /\ RejectedTurn(c).content = extractJson(LastReply(c))
      /\ SchemaViolating(LastReply(c))
           => CorrectionTurn(c) = Message("user", CorrectionFor(LastReply(c)))

\* C15 amended: in every repair iteration the rejected reply in the request
\* and the violations in the correction message are those of the first
\* reply of the attempt; for the first iteration that is the reply received
\* immediately before, for a later one it is not the previous repair reply,
\* whose text and violations are never sent.
C15_RepairFromInitialReply ==
  \A c \in Calls :
    fr[c].pc = "awaitRetry" =>
      /\ fr[c].replies # <<>> /\ Len(fr[c].replies) = fr[c].i + 1
      /\ SchemaViolating(fr[c].replies[1])
      /\ RejectedTurn(c).content = extractJson(fr[c].replies[1])
      /\ CorrectionTurn(c) = Message("user", CorrectionFor(fr[c].replies[1]))

\* C15 witness: the second repair request, after a repair reply that
\* violates the schema otherwise than the first reply
C15_Witness ==
  /\ fr[1].pc = "awaitRetry"
  /\ fr[1].i = 1
  /\ fr[1].replies = <<ReplyMissing, ReplyWrongType>>
  /\ RejectedTurn(1).content = ReplyMissing
  /\ CorrectionTurn(1).content # CorrectionFor(ReplyWrongType)

\* the step hands a request of call c to the backend
Issued(c) ==
  \/ fr'[c].calls # fr[c].calls
  \/ fr'[c].chat.state = "pending" /\ fr[c].chat.state # "pending"

\* C16: a request of a call is handed to the backend only when no request
\* of that call is with the backend: either the call starts, or the reply
\* to the call's previous request has been received and rejected.  A repair
\* request or the request of an outer retry is the next request of the
\* call, and an outer retry starts only when the reply to the attempt's
\* last request (the first plus fixTries repair requests) is in.
C16_OneRequestAtATime ==
  [][\A c \in Calls :
       Issued(c) =>
         /\ fr'[c].chat.state = "pending"
         /\ fr[c].chat.state # "pending"
         /\ IF ~InFlight(c) THEN fr'[c].calls = 1
            ELSE /\ fr[c].chat.state = "resolved"
                 /\ ~parseReply(fr[c].chat.message.content).ok
                 /\ fr'[c].calls = fr[c].calls + 1
                 /\ Len(fr[c].replies) = fr[c].attemptCalls - 1
                 /\ fr'[c].retries # fr[c].retries =>
                      /\ fr[c].attemptCalls = 1 + fr[c].fixTries
                      /\ fr'[c].attemptCalls = 1]_vars

\* C16 witness: the first request of a retried attempt is with the backend,
\* after the three requests of the first attempt were answered
C16_Witness ==
  /\ fr[1].pc = "awaitChat" /\ fr[1].chat.state = "pending"
  /\ fr[1].fixTries = 2
  /\ fr[1].retries = fr[1].retries0 - 1
  /\ fr[1].calls = 4

\* the reply just received ends the repair loop of c's attempt unrepaired:
\* the first reply violates the schema and fixTries = 0, or the reply to
\* the last repair request is rejected
LoopExhausted(c) ==
  /\ fr[c].chat.state = "resolved"
  /\ \/ /\ fr[c].pc = "awaitChat"
        /\ parseReply(fr[c].chat.message.content).error.kind = "ZodError"
        /\ fr[c].fixTries = 0
     \/ /\ fr[c].pc = "awaitRetry"
        /\ ~parseReply(fr[c].chat.message.content).ok
        /\ fr[c].i + 1 >= fr[c].fixTries

\* the first reply of c's attempt and the turns the attempt added to it
FirstReply(c) ==
  IF fr[c].replies = <<>> THEN fr[c].chat.message.content ELSE fr[c].replies[1]
FailedConversation(c) ==
  {Message("system", extractJson(FirstReply(c))),
   Message("user", CorrectionFor(FirstReply(c)))}

\* C17: the step after the repair loop of an attempt ended unrepaired:
\* with retries > 0 generate starts over with retries - 1, the same
\* fixTries and the same input, and sends what a first attempt sends
\* (examples, prompt, stored entries, input), with neither the rejected
\* reply nor the correction message of the failed attempt; with
\* retries = 0 it throws and sends nothing.
C17_OuterRetryRestarts ==
  [][\A c \in Calls :
       (LoopExhausted(c) /\ fr'[c] # fr[c]) =>
         IF fr[c].retries > 0
         THEN /\ fr'[c].pc = "awaitChat" /\ fr'[c].chat.state = "pending"
              /\ fr'[c].retries = fr[c].retries - 1
              /\ fr'[c].fixTries = fr[c].fixTries
              /\ fr'[c].input = fr[c].input
              /\ fr'[c].i = 0 /\ fr'[c].attemptCalls = 1
              /\ fr'[c].calls = fr[c].calls + 1
              /\ fr'[c].request
                   = ExampleTurns \o <<Message("user", getPromptText(options))>>
                     \o HistoryTurns \o <<Message("user", JSONstringify(fr[c].input))>>
              /\ Range(fr'[c].request) \cap FailedConversation(c) \subseteq Range(HistoryTurns)
              /\ previousMessages' = previousMessages
         ELSE /\ fr'[c].pc = "done" /\ fr'[c].outcome.kind = "threw"
              /\ fr'[c].calls = fr[c].calls]_vars

\* C17 witness: called with retries = 2 and fixTries = 1, generate is at
\* its third attempt, with an entry of an earlier call stored
C17_Witness ==
  /\ fr[1].pc = "awaitChat"
  /\ fr[1].retries0 = 2 /\ fr[1].retries = 0 /\ fr[1].fixTries = 1
  /\ fr[1].calls = 5
  /\ previousMessages # <<>>

\* what the functions of options would return for a request made now
ResolvedNow ==
  ExampleMessages(resolveToStatic(options.examples)[1])
  \o <<Message("user", getPromptText(options))>>

\* C18: with options.examples and options.conversionHelp functions, an
\* invocation of generate (the caller's, or the one an outer retry makes)
\* has invoked each of them exactly once, before its first request;
\* whatever they would return later, every request of the invocation, the
\* first and each repair request, starts with the example turns and the
\* prompt of the first request.
C18_ResolvedOncePerInvocation ==
  \A c \in Calls :
    fr[c].pc # "idle" =>
      /\ fr[c].invoked = [examples |-> 1, conversionHelp |-> 1]
      /\ Len(fr[c].request) >= Len(fr[c].assembled)
      /\ SubSeq(fr[c].request, 1, Len(fr[c].assembled)) = fr[c].assembled
      /\ fr[c].pc = "awaitRetry" => Len(fr[c].request) = Len(fr[c].assembled) + 3

\* C18 witness: the second repair request of an invocation is out, and the
\* functions now return other examples and another conversion help than
\* the ones its requests carry
C18_Witness ==
  /\ fr[1].pc = "awaitRetry" /\ fr[1].i = 1
  /\ IsFunction(options.examples) /\ IsFunction(options.conversionHelp)
  /\ Len(ResolvedNow) # Len(fr[1].assembled)
  /\ ResolvedNow[Len(ResolvedNow)] # fr[1].assembled[Len(fr[1].assembled)]

\* C19 as stated: whatever the history and maxMessages were before, when
\* generate has appended its entry (the step in which it returns) the
\* history holds at most maxMessages entries.
C19_AppendRestoresBound ==
  [][\A c \in Calls :
       (InFlight(c) /\ fr'[c].pc = "done" /\ fr'[c].outcome.kind = "returned")
         => Len(previousMessages') <= MaxMessagesOf(options)]_vars

\* C20 as stated: when the caller passed an explicit history, the first
\* request of every attempt of the call, those of outer retries included,
\* carries the explicit history between the prompt and the input, and no
\* stored entry.
C20_ExplicitHistoryOnEveryAttempt ==
  \A c \in Calls :
    (fr[c].pc = "awaitChat" /\ fr[c].explicit0 # None) =>
      fr[c].request
        = ExampleTurns
          \o <<Message("user", getPromptText(options))>>
          \o fr[c].explicit0[1]
          \o <<Message("user", JSONstringify(fr[c].input))>>

\* the step in which call c returns
Returns(c) == InFlight(c) /\ fr'[c].pc = "done" /\ fr'[c].outcome.kind = "returned"

\* C21: with two calls of generate suspended on the same instance and
\* resumed in any order, every step leaves at most maxMessages entries;
\* the step in which a call returns stores, as the newest entry and behind
\* the entries of the calls that returned before it, the serialized input
\* of that call with a reply received for that call (the reply just
\* accepted, or after a repair the JSON text of the call's own first
\* reply); no other step changes the history.
C21_ConcurrentHistory ==
  [][/\ Len(previousMessages') <= MaxMessagesOf(options')
     /\ \A c \in Calls :
          Returns(c) =>
            /\ Appended(c)
            /\ previousMessages'[Len(previousMessages')][2]
                 = IF fr[c].pc = "awaitChat" THEN fr[c].chat.message
                   ELSE Message("system", extractJson(fr[c].replies[1]))
            /\ previousMessages'[Len(previousMessages')][2].content
                 \in {r : r \in Range(fr'[c].replies)}
                     \cup {extractJson(r) : r \in Range(fr'[c].replies)}
     /\ previousMessages' # previousMessages => \E c \in Calls : Returns(c)]_vars

\* C21 witness: call 2 was started while call 1 was suspended and returned
\* first; both have returned, and the entry of call 2 (its input, its
\* reply) precedes the entry of call 1 (its input, its first reply, which
\* was repaired)
C21_Witness ==
  /\ Returned(1) /\ Returned(2)
  /\ 2 \in fr[1].later
  /\ fr[1].input = InputA /\ fr[2].input = InputB
  /\ fr[1].replies = <<ReplyMissing, ReplyValid>> /\ fr[2].replies = <<ReplyProse>>
  /\ options.maxMessages = Some(2)
  /\ previousMessages
       = << <<Message("user", JSONstringify(InputB)), Message("assistant", ReplyProse)>>,
            <<Message("user", JSONstringify(InputA)), Message("system", ReplyMissing)>> >>

\* the backend calls a suspended call may still make: those left in the
\* attempt, and 1 + fixTries for each outer retry left
Budget(f) == f.retries * (1 + f.fixTries) + (1 + f.fixTries - f.attemptCalls)

\* C22: a call of generate with retries >= 0 and fixTries >= 0 never makes
\* more than (retries + 1) * (1 + fixTries) backend calls: each request it
\* sends takes one off what it may still send, an outer retry takes one off
\* retries (never below 0) and leaves fixTries as passed; and when the
\* backend settles every request, each call ends: it returns or throws.
C22_Terminates ==
  /\ [][\A c \in Calls :
          /\ fr'[c].calls <= (fr'[c].retries0 + 1) * (1 + fr'[c].fixTries)
          /\ InFlight(c) =>
               /\ fr'[c].fixTries = fr[c].fixTries
               /\ fr'[c].retries0 = fr[c].retries0
               /\ fr'[c].retries \in {fr[c].retries, fr[c].retries - 1}
               /\ fr'[c].retries >= 0
               /\ fr'[c].calls \in {fr[c].calls, fr[c].calls + 1}
               /\ fr'[c].calls # fr[c].calls =>
                    /\ Budget(fr'[c]) = Budget(fr[c]) - 1
                    /\ Budget(fr'[c]) >= 0
               /\ fr'[c].retries # fr[c].retries => fr'[c].calls # fr[c].calls]_vars
  /\ \A c \in Calls : InFlight(c) ~> fr[c].pc = "done"

\* C22 witness: generate(input, 2, 2) has returned on the reply to its
\* ninth backend call, the last one it may make
C22_Witness ==
  /\ Returned(1)
  /\ fr[1].retries0 = 2 /\ fr[1].fixTries = 2
  /\ fr[1].retries = 0 /\ fr[1].attemptCalls = 3
  /\ fr[1].calls = 9

====
